---- MODULE Spec2Model ----
(***************************************************************************)
(* The RFC tool server of rfc_mcp_server.py: the tool registry             *)
(* (list_tools), the dispatcher (call_tool) and the three fetch handlers   *)
(* (search_rfcs, get_rfc, get_rfc_text), each split at its one suspension  *)
(* point, the await of the outbound GET.                                   *)
(*                                                                         *)
(* A Python str is a sequence of one-character strings.  A Python value is *)
(* a record [t, s, n, l, d]: t is its type and s, n, l or d its payload    *)
(* (the characters of a str, the number of an int, the elements of a list, *)
(* the entries of a dict).  A Python dict is a record over the keys the    *)
(* code reads, a key that is not in the dict holding Absent.               *)
(***************************************************************************)
EXTENDS Integers, Sequences, FiniteSets, TLC

VARIABLES inv, clients, net, listed, twin

vars == <<inv, clients, net, listed, twin>>

-----------------------------------------------------------------------------
(* Bounds of the model. *)

\* invocations per run of the server
MaxCalls == 2
\* documents in one search response
MaxDocs == 2
\* length of the identifier strings drawn over IdAlphabet
MaxIdLen == 3
\* how far past a cap the abstracts and bodies reach
MaxOver == 2
\* how long the bodies and abstracts far below the cap get
MaxShort == 2
\* how many different contents a text of one length has
MaxFill == 4

-----------------------------------------------------------------------------
(* String literals of the source. *)

DATATRACKER_API_BASE ==
    <<"h","t","t","p","s",":","/","/","d","a","t","a","t","r","a","c","k","e",
      "r",".","i","e","t","f",".","o","r","g","/","a","p","i","/","v","1">>
DOC_PATH ==
    <<"/","d","o","c","/","d","o","c","u","m","e","n","t","/">>
RFC_EDITOR_PREFIX ==
    <<"h","t","t","p","s",":","/","/","w","w","w",".","r","f","c","-","e","d",
      "i","t","o","r",".","o","r","g","/","r","f","c","/","r","f","c">>
TXT_SUFFIX ==
    <<".","t","x","t">>
SLASH ==
    <<"/">>
RFC_PREFIX ==
    <<"r","f","c">>
ELLIPSIS ==
    <<".",".",".">>
TRUNCATION_MARKER ==
    <<"\n","\n","[",".",".","."," ","c","o","n","t","e","n","t"," ","t","r",
      "u","n","c","a","t","e","d"," ","f","o","r"," ","l","e","n","g","t","h",
      " ",".",".",".","]">>
SEARCH_ERROR_PREFIX ==
    <<"E","r","r","o","r"," ","s","e","a","r","c","h","i","n","g"," ","R","F",
      "C","s",":"," ">>
FOUND_PREFIX ==
    <<"F","o","u","n","d"," ">>
FOUND_MIDDLE ==
    <<" ","R","F","C","s"," ","m","a","t","c","h","i","n","g"," ","'">>
FOUND_SUFFIX ==
    <<"'",":","\n","\n">>
PARAGRAPH_SEP ==
    <<"\n","\n">>
BOLD ==
    <<"*","*">>
BOLD_DASH ==
    <<"*","*"," ","-"," ">>
NEWLINE ==
    <<"\n">>
DOC_TITLE_PREFIX ==
    <<"\n","#"," ">>
COLON_SPACE ==
    <<":"," ">>
META_AUTHORS ==
    <<"\n","\n","#","#"," ","M","e","t","a","d","a","t","a","\n","-"," ","*",
      "*","A","u","t","h","o","r","s","*","*",":"," ">>
COMMA_SPACE ==
    <<","," ">>
NOT_AVAILABLE ==
    <<"N","/","A">>
META_PAGES ==
    <<"\n","-"," ","*","*","P","a","g","e","s","*","*",":"," ">>
META_STREAM ==
    <<"\n","-"," ","*","*","S","t","r","e","a","m","*","*",":"," ">>
META_GROUP ==
    <<"\n","-"," ","*","*","G","r","o","u","p","*","*",":"," ">>
META_STD_LEVEL ==
    <<"\n","-"," ","*","*","S","t","a","n","d","a","r","d"," ","L","e","v",
      "e","l","*","*",":"," ">>
META_RFC_NUMBER ==
    <<"\n","-"," ","*","*","R","F","C"," ","N","u","m","b","e","r","*","*",
      ":"," ">>
ABSTRACT_HEADING ==
    <<"\n","\n","#","#"," ","A","b","s","t","r","a","c","t","\n">>
NOT_FOUND_PREFIX ==
    <<"R","F","C"," ","'">>
NOT_FOUND_SUFFIX ==
    <<"'"," ","n","o","t"," ","f","o","u","n","d","."," ","P","l","e","a","s",
      "e"," ","c","h","e","c","k"," ","t","h","e"," ","R","F","C"," ","n","u",
      "m","b","e","r",".">>
HTTP_ERROR_PREFIX ==
    <<"H","T","T","P"," ","e","r","r","o","r"," ","f","e","t","c","h","i","n",
      "g"," ","R","F","C",":"," ">>
FETCH_ERROR_PREFIX ==
    <<"E","r","r","o","r"," ","f","e","t","c","h","i","n","g"," ","R","F","C",
      ":"," ">>
TEXT_HEADER_PREFIX ==
    <<"R","F","C"," ">>
TEXT_HEADER_SUFFIX ==
    <<" ","F","u","l","l"," ","T","e","x","t",":","\n","\n">>
TEXT_NOT_FOUND_SUFFIX ==
    <<" ","t","e","x","t"," ","n","o","t"," ","f","o","u","n","d",".">>
TEXT_HTTP_ERROR_PREFIX ==
    <<"H","T","T","P"," ","e","r","r","o","r"," ","f","e","t","c","h","i","n",
      "g"," ","R","F","C"," ","t","e","x","t",":"," ">>
TEXT_FETCH_ERROR_PREFIX ==
    <<"E","r","r","o","r"," ","f","e","t","c","h","i","n","g"," ","R","F","C",
      " ","t","e","x","t",":"," ">>
UNKNOWN_TOOL_PREFIX ==
    <<"U","n","k","n","o","w","n"," ","t","o","o","l",":"," ">>
NONE_REPR ==
    <<"N","o","n","e">>
LIST_HAS_NO_GET ==
    <<"'","l","i","s","t","'"," ","o","b","j","e","c","t"," ","h","a","s"," ",
      "n","o"," ","a","t","t","r","i","b","u","t","e"," ","'","g","e","t","'">>
INT_NOT_SUBSCRIPTABLE ==
    <<"'","i","n","t","'"," ","o","b","j","e","c","t"," ","i","s"," ","n","o",
      "t"," ","s","u","b","s","c","r","i","p","t","a","b","l","e">>
INT_HAS_NO_ISDIGIT ==
    <<"'","i","n","t","'"," ","o","b","j","e","c","t"," ","h","a","s"," ","n",
      "o"," ","a","t","t","r","i","b","u","t","e"," ","'","i","s","d","i","g",
      "i","t","'">>
NONE_HAS_NO_ISDIGIT ==
    <<"'","N","o","n","e","T","y","p","e","'"," ","o","b","j","e","c","t"," ",
      "h","a","s"," ","n","o"," ","a","t","t","r","i","b","u","t","e"," ","'",
      "i","s","d","i","g","i","t","'">>
INT_HAS_NO_UPPER ==
    <<"'","i","n","t","'"," ","o","b","j","e","c","t"," ","h","a","s"," ","n",
      "o"," ","a","t","t","r","i","b","u","t","e"," ","'","u","p","p","e","r",
      "'">>

-----------------------------------------------------------------------------
(* Python values and the str, dict and f-string operations the code uses. *)

\* the payload of a value that is no dict
NoDict == [no |-> 0, dict |-> 0]
Value(t, s, n, l, d) == [t |-> t, s |-> s, n |-> n, l |-> l, d |-> d]
PyStr(s) == Value("str", s, 0, <<>>, NoDict)
PyInt(n) == Value("int", <<>>, n, <<>>, NoDict)
PyList(l) == Value("list", <<>>, 0, l, NoDict)
PyDict(d) == Value("dict", <<>>, 0, <<>>, d)
PyNone == Value("none", <<>>, 0, <<>>, NoDict)
Absent == Value("absent", <<>>, 0, <<>>, NoDict)

\* d.get(k, default)
Get(d, k, default) == IF d[k].t = "absent" THEN default ELSE d[k]

\* bool(v), for the values the code tests
Truthy(v) ==
    CASE v.t = "str" -> v.s # <<>>
      [] v.t = "int" -> v.n # 0
      [] v.t = "list" -> v.l # <<>>
      [] v.t = "dict" -> TRUE
      [] OTHER -> FALSE

UpperCase ==
    <<"A","B","C","D","E","F","G","H","I","J","K","L","M",
      "N","O","P","Q","R","S","T","U","V","W","X","Y","Z">>
LowerCase ==
    <<"a","b","c","d","e","f","g","h","i","j","k","l","m",
      "n","o","p","q","r","s","t","u","v","w","x","y","z">>
DigitChars == <<"0","1","2","3","4","5","6","7","8","9">>

IndexIn(c, tab) == CHOOSE i \in 1..Len(tab) : tab[i] = c
IsIn(c, tab) == \E i \in 1..Len(tab) : tab[i] = c

\* str.lower() and str.upper(), character by character
LowerChar(c) == IF IsIn(c, UpperCase) THEN LowerCase[IndexIn(c, UpperCase)] ELSE c
UpperChar(c) == IF IsIn(c, LowerCase) THEN UpperCase[IndexIn(c, LowerCase)] ELSE c
Lower(s) == [i \in 1..Len(s) |-> LowerChar(s[i])]
Upper(s) == [i \in 1..Len(s) |-> UpperChar(s[i])]

\* str.isdigit(): non-empty and every character a digit
IsDigit(s) == Len(s) > 0 /\ \A i \in 1..Len(s) : IsIn(s[i], DigitChars)

\* s.startswith(p)
StartsWith(s, p) == Len(s) >= Len(p) /\ SubSeq(s, 1, Len(p)) = p

\* s[:n]
Slice(s, n) == SubSeq(s, 1, IF Len(s) < n THEN Len(s) ELSE n)

\* str(n) of an int
RECURSIVE NatToStr(_)
NatToStr(n) ==
    IF n < 10 THEN <<DigitChars[n + 1]>>
    ELSE NatToStr(n \div 10) \o <<DigitChars[(n % 10) + 1]>>
IntToStr(n) == IF n < 0 THEN <<"-">> \o NatToStr(0 - n) ELSE NatToStr(n)

\* f"{v}": the str() of a value
Format(v) ==
    CASE v.t = "str" -> v.s
      [] v.t = "int" -> IntToStr(v.n)
      [] OTHER -> NONE_REPR

\* sep.join(parts)
RECURSIVE Join(_, _)
Join(sep, parts) ==
    IF parts = <<>> THEN <<>>
    ELSE IF Len(parts) = 1 THEN parts[1]
    ELSE parts[1] \o sep \o Join(sep, Tail(parts))

-----------------------------------------------------------------------------
(* Program constants. *)

\* search_rfcs: args.get("limit", 10)
DEFAULT_LIMIT == 10
\* search_rfcs: doc.get("abstract", "")[:200]
ABSTRACT_CAP == 200
\* get_rfc_text: args.get("rfc_number", 0)
DEFAULT_RFC_NUMBER == 0
\* get_rfc_text: len(text_content) > 50000, text_content[:50000]
TEXT_CAP == 50000
\* httpx.AsyncClient(timeout=30.0)
TIMEOUT == 30
\* e.response.status_code == 404
NOT_FOUND == 404

-----------------------------------------------------------------------------
(* The registry. *)

Property(name, type, default) == [name |-> name, type |-> type, default |-> default]
Tool(name, properties, required) ==
    [name |-> name, properties |-> properties, required |-> required]

\* list_tools with get_rfc_text registered before get_rfc
list_tools_reordered ==
    << Tool("search_rfcs",
            << Property("query", "string", Absent),
               Property("limit", "integer", PyInt(10)) >>,
            << "query" >>),
       Tool("get_rfc_text",
            << Property("rfc_number", "integer", Absent) >>,
            << "rfc_number" >>),
       Tool("get_rfc",
            << Property("rfc_identifier", "string", Absent) >>,
            << "rfc_identifier" >>) >>

\* list_tools(): a fresh list of the three Tool definitions on every request
list_tools ==
    << Tool("search_rfcs",
            << Property("query", "string", Absent),
               Property("limit", "integer", PyInt(10)) >>,
            << "query" >>),
       Tool("get_rfc",
            << Property("rfc_identifier", "string", Absent) >>,
            << "rfc_identifier" >>),
       Tool("get_rfc_text",
            << Property("rfc_number", "integer", Absent) >>,
            << "rfc_number" >>) >>

-----------------------------------------------------------------------------
(* What a run of handler code between two suspension points does: it      *)
(* suspends at the await of client.get, returns, or raises.               *)

TextContent(text) == [type |-> "text", text |-> text]

NoParams == [limit |-> Absent, name__icontains |-> Absent, type |-> Absent]
Request(cid, url, params) ==
    [client |-> cid, method |-> "GET", url |-> url, params |-> params,
     timeout |-> TIMEOUT]

\* no exception
NoError == [exc |-> "none", msg |-> <<>>]

\* async with httpx.AsyncClient(...) as client: response = await client.get(...)
Suspend(local, req) ==
    [status |-> "awaiting", local |-> local, sent |-> <<req>>, opens |-> TRUE,
     closes |-> FALSE, hret |-> <<>>, err |-> NoError]
\* return [TextContent(type="text", text=...)], leaving the async with block
Return(text) ==
    [status |-> "returned", local |-> Absent, sent |-> <<>>, opens |-> FALSE,
     closes |-> TRUE, hret |-> <<TextContent(text)>>, err |-> NoError]
\* an exception that leaves the handler, raised before the client is opened
Raised(err) ==
    [status |-> "raised", local |-> Absent, sent |-> <<>>, opens |-> FALSE,
     closes |-> FALSE, hret |-> <<>>, err |-> err]

\* the value of an expression, or the exception it raises
Ok(val) == [exc |-> "none", msg |-> <<>>, val |-> val]
Raise(exc, msg) == [exc |-> exc, msg |-> msg, val |-> <<>>]

\* response.raise_for_status(): every status outside 2xx raises HTTPStatusError
IsSuccess(status) == 200 <= status /\ status <= 299

\* await client.get(...); response.raise_for_status(): the response, or the
\* exception of the transport (error, timeout) or of the status
Fetched(resp) ==
    IF resp.kind = "error" THEN Raise("RequestError", resp.msg)
    ELSE IF ~IsSuccess(resp.status) THEN Raise("HTTPStatusError", resp.msg)
    ELSE Ok(resp)

\* response.json(): the parsed value, or the decoder's exception
Json(resp) ==
    IF resp.json.t = "bad" THEN Raise("JSONDecodeError", resp.msg)
    ELSE Ok(resp.json)

-----------------------------------------------------------------------------
(* search_rfcs *)

\* the "abstract" entry of one result:
\*   doc.get("abstract", "")[:200] + "..." if doc.get("abstract") else ""
ProjectAbstract(doc) ==
    IF Truthy(Get(doc, "abstract", PyNone))
    THEN LET abstract == Get(doc, "abstract", PyStr(<<>>))
         IN  IF abstract.t = "str"
             THEN Ok(PyStr(Slice(abstract.s, ABSTRACT_CAP) \o ELLIPSIS))
             ELSE Raise("TypeError", INT_NOT_SUBSCRIPTABLE)
    ELSE Ok(PyStr(<<>>))

\* one element of results
Project(doc) ==
    LET a == ProjectAbstract(doc)
    IN  IF a.exc # "none" THEN a
        ELSE Ok([name |-> Get(doc, "name", PyStr(<<>>)),
                 title |-> Get(doc, "title", PyStr(<<>>)),
                 rev |-> Get(doc, "rev", PyStr(<<>>)),
                 abstract |-> a.val])

\* for doc in data.get("objects", []): results.append({...})
RECURSIVE Projected(_)
Projected(docs) ==
    IF docs = <<>> THEN Ok(<<>>)
    ELSE LET h == Project(Head(docs))
         IN  IF h.exc # "none" THEN h
             ELSE LET r == Projected(Tail(docs))
                  IN  IF r.exc # "none" THEN r ELSE Ok(<<h.val>> \o r.val)

\* f"**{r['name']}** - {r['title']}\n{r['abstract']}"
Entry(r) ==
    BOLD \o Format(r.name) \o BOLD_DASH \o Format(r.title) \o NEWLINE
         \o Format(r.abstract)

RECURSIVE Entries(_)
Entries(results) ==
    IF results = <<>> THEN <<>>
    ELSE <<Entry(Head(results))>> \o Entries(Tail(results))

\* f"Found {len(results)} RFCs matching '{query}':\n\n" + "\n\n".join([...])
SearchText(query, results) ==
    FOUND_PREFIX \o IntToStr(Len(results)) \o FOUND_MIDDLE \o Format(query)
        \o FOUND_SUFFIX \o Join(PARAGRAPH_SEP, Entries(results))

\* search_rfcs up to its await of client.get
search_rfcs(args, cid) ==
    LET query == Get(args, "query", PyStr(<<>>))
        limit == Get(args, "limit", PyInt(DEFAULT_LIMIT))
    IN  Suspend(query,
                Request(cid, DATATRACKER_API_BASE \o DOC_PATH,
                        [limit |-> limit, name__icontains |-> query,
                         type |-> PyStr(RFC_PREFIX)]))

\* the try block of search_rfcs from the response on
SearchBody(query, resp) ==
    LET f == Fetched(resp)
        data == IF f.exc = "none" THEN Json(resp) ELSE f
    IN  IF data.exc # "none" THEN data
        ELSE IF data.val.t # "dict" THEN Raise("AttributeError", LIST_HAS_NO_GET)
        ELSE LET results == Projected(Get(data.val.d, "objects", PyList(<<>>)).l)
             IN  IF results.exc # "none" THEN results
                 ELSE Ok(SearchText(query, results.val))

\* search_rfcs with no except clause: the exception leaves the handler
search_rfcs_resume_uncaught(query, resp) ==
    LET body == SearchBody(query, resp)
    IN  IF body.exc = "none" THEN Return(body.val)
        ELSE [Raised([exc |-> body.exc, msg |-> body.msg]) EXCEPT !.closes = TRUE]

\* search_rfcs from the response on: the try block and its except clause
search_rfcs_resume(query, resp) ==
    LET body == SearchBody(query, resp)
    IN  IF body.exc = "none" THEN Return(body.val)
        ELSE Return(SEARCH_ERROR_PREFIX \o body.msg)

-----------------------------------------------------------------------------
(* get_rfc *)

\* the normalization with the prefix added whatever the identifier starts with
Normalize_always_prefix(s) == Lower(RFC_PREFIX \o s)

\* the normalization of the identifier: isdigit / startswith("rfc") / lower
Normalize(s) ==
    LET prefixed == IF IsDigit(s) THEN RFC_PREFIX \o s
                    ELSE IF ~StartsWith(Lower(s), RFC_PREFIX) THEN RFC_PREFIX \o s
                    ELSE s
    IN  Lower(prefixed)

\* get_rfc up to its await of client.get; the normalization runs before the try
get_rfc(args, cid) ==
    LET raw == Get(args, "rfc_identifier", PyStr(<<>>))
    IN  IF raw.t # "str"
        THEN Raised([exc |-> "AttributeError",
                     msg |-> IF raw.t = "none" THEN NONE_HAS_NO_ISDIGIT
                             ELSE INT_HAS_NO_ISDIGIT])
        ELSE LET rfc_id == Normalize(raw.s)
             IN  Suspend(PyStr(rfc_id),
                         Request(cid, DATATRACKER_API_BASE \o DOC_PATH \o rfc_id \o SLASH,
                                 NoParams))

\* [author.get("person", "") for author in data.get("authors", [])]
RECURSIVE Persons(_)
Persons(authors) ==
    IF authors = <<>> THEN <<>>
    ELSE <<Get(Head(authors), "person", PyStr(<<>>)).s>> \o Persons(Tail(authors))

\* result['std_level'] or result['intended_std_level']
StdLevel(data) ==
    LET std_level == Get(data, "std_level", PyStr(<<>>))
    IN  IF Truthy(std_level) THEN std_level
        ELSE Get(data, "intended_std_level", PyStr(<<>>))

\* formatted_output
DetailText(data) ==
    LET authors == Persons(Get(data, "authors", PyList(<<>>)).l)
    IN  DOC_TITLE_PREFIX \o Upper(Get(data, "name", PyStr(<<>>)).s) \o COLON_SPACE
            \o Format(Get(data, "title", PyStr(<<>>)))
            \o META_AUTHORS
            \o (IF authors # <<>> THEN Join(COMMA_SPACE, authors) ELSE NOT_AVAILABLE)
            \o META_PAGES \o Format(Get(data, "pages", PyStr(<<>>)))
            \o META_STREAM \o Format(Get(data, "stream", PyStr(<<>>)))
            \o META_GROUP \o Format(Get(data, "group", PyStr(<<>>)))
            \o META_STD_LEVEL \o Format(StdLevel(data))
            \o META_RFC_NUMBER \o Format(Get(data, "rfc", PyStr(<<>>)))
            \o ABSTRACT_HEADING \o Format(Get(data, "abstract", PyStr(<<>>)))
            \o NEWLINE

\* the try block of get_rfc from the response on
DetailBody(resp) ==
    LET f == Fetched(resp)
        data == IF f.exc = "none" THEN Json(resp) ELSE f
    IN  IF data.exc # "none" THEN data
        ELSE IF data.val.t # "dict" THEN Raise("AttributeError", LIST_HAS_NO_GET)
        ELSE IF Get(data.val.d, "name", PyStr(<<>>)).t # "str"
             THEN Raise("AttributeError", INT_HAS_NO_UPPER)
        ELSE Ok(DetailText(data.val.d))

\* get_rfc without the status_code == 404 test
get_rfc_resume_no_404(rfc_id, resp) ==
    LET body == DetailBody(resp)
    IN  IF body.exc = "none" THEN Return(body.val)
        ELSE IF body.exc = "HTTPStatusError" THEN Return(HTTP_ERROR_PREFIX \o body.msg)
        ELSE Return(FETCH_ERROR_PREFIX \o body.msg)

\* get_rfc with a client that only the success path closes
get_rfc_resume_leak(rfc_id, resp) ==
    LET body == DetailBody(resp)
        leave(text) == [Return(text) EXCEPT !.closes = FALSE]
    IN  IF body.exc = "none" THEN Return(body.val)
        ELSE IF body.exc = "HTTPStatusError"
             THEN IF resp.status = NOT_FOUND
                  THEN leave(NOT_FOUND_PREFIX \o rfc_id.s \o NOT_FOUND_SUFFIX)
                  ELSE leave(HTTP_ERROR_PREFIX \o body.msg)
        ELSE leave(FETCH_ERROR_PREFIX \o body.msg)

\* get_rfc from the response on: the try block and its two except clauses
get_rfc_resume(rfc_id, resp) ==
    LET body == DetailBody(resp)
    IN  IF body.exc = "none" THEN Return(body.val)
        ELSE IF body.exc = "HTTPStatusError"
             THEN IF resp.status = NOT_FOUND
                  THEN Return(NOT_FOUND_PREFIX \o rfc_id.s \o NOT_FOUND_SUFFIX)
                  ELSE Return(HTTP_ERROR_PREFIX \o body.msg)
        ELSE Return(FETCH_ERROR_PREFIX \o body.msg)

-----------------------------------------------------------------------------
(* get_rfc_text *)

\* the truncation with >= for >
TruncateText_at_cap(text_content) ==
    IF Len(text_content) >= TEXT_CAP
    THEN Slice(text_content, TEXT_CAP) \o TRUNCATION_MARKER
    ELSE text_content

\* if len(text_content) > 50000: text_content = text_content[:50000] + marker
TruncateText(text_content) ==
    IF Len(text_content) > TEXT_CAP
    THEN Slice(text_content, TEXT_CAP) \o TRUNCATION_MARKER
    ELSE text_content

\* get_rfc_text up to its await of client.get
get_rfc_text(args, cid) ==
    LET rfc_num == Get(args, "rfc_number", PyInt(DEFAULT_RFC_NUMBER))
    IN  Suspend(rfc_num,
                Request(cid, RFC_EDITOR_PREFIX \o Format(rfc_num) \o TXT_SUFFIX,
                        NoParams))

\* get_rfc_text that issues the GET again when the first one raised
get_rfc_text_resume_retry(rfc_num, resp) ==
    LET f == Fetched(resp)
    IN  IF f.exc = "none"
        THEN Return(TEXT_HEADER_PREFIX \o Format(rfc_num) \o TEXT_HEADER_SUFFIX
                        \o TruncateText(resp.text))
        ELSE IF f.exc = "HTTPStatusError"
             THEN IF resp.status = NOT_FOUND
                  THEN Return(TEXT_HEADER_PREFIX \o Format(rfc_num)
                                  \o TEXT_NOT_FOUND_SUFFIX)
                  ELSE Return(TEXT_HTTP_ERROR_PREFIX \o f.msg)
        ELSE [Suspend(rfc_num,
                      Request(0, RFC_EDITOR_PREFIX \o Format(rfc_num) \o TXT_SUFFIX,
                              NoParams)) EXCEPT !.opens = FALSE]

\* get_rfc_text from the response on: the try block and its two except clauses
get_rfc_text_resume(rfc_num, resp) ==
    LET f == Fetched(resp)
    IN  IF f.exc = "none"
        THEN Return(TEXT_HEADER_PREFIX \o Format(rfc_num) \o TEXT_HEADER_SUFFIX
                        \o TruncateText(resp.text))
        ELSE IF f.exc = "HTTPStatusError"
             THEN IF resp.status = NOT_FOUND
                  THEN Return(TEXT_HEADER_PREFIX \o Format(rfc_num)
                                  \o TEXT_NOT_FOUND_SUFFIX)
                  ELSE Return(TEXT_HTTP_ERROR_PREFIX \o f.msg)
        ELSE Return(TEXT_FETCH_ERROR_PREFIX \o f.msg)

-----------------------------------------------------------------------------
(* The dispatcher. *)

SEARCH_RFCS ==
    <<"s","e","a","r","c","h","_","r","f","c","s">>
GET_RFC ==
    <<"g","e","t","_","r","f","c">>
GET_RFC_TEXT ==
    <<"g","e","t","_","r","f","c","_","t","e","x","t">>

\* call_tool with its last elif turned into the else branch
call_tool_default(name, arguments, cid) ==
    IF name = SEARCH_RFCS
    THEN [handler |-> "search_rfcs", step |-> search_rfcs(arguments, cid)]
    ELSE IF name = GET_RFC
    THEN [handler |-> "get_rfc", step |-> get_rfc(arguments, cid)]
    ELSE [handler |-> "get_rfc_text", step |-> get_rfc_text(arguments, cid)]

\* call_tool up to the first suspension: the handler it awaits and how far
\* that handler runs
call_tool(name, arguments, cid) ==
    IF name = SEARCH_RFCS
    THEN [handler |-> "search_rfcs", step |-> search_rfcs(arguments, cid)]
    ELSE IF name = GET_RFC
    THEN [handler |-> "get_rfc", step |-> get_rfc(arguments, cid)]
    ELSE IF name = GET_RFC_TEXT
    THEN [handler |-> "get_rfc_text", step |-> get_rfc_text(arguments, cid)]
    ELSE [handler |-> "none",
          step |-> Raised([exc |-> "ValueError", msg |-> UNKNOWN_TOOL_PREFIX \o name])]

\* return await <handler>(arguments): the awaited handler runs on from the
\* response and call_tool returns what it returns
call_tool_resume(handler, local, resp) ==
    CASE handler = "search_rfcs" -> search_rfcs_resume(local, resp)
      [] handler = "get_rfc" -> get_rfc_resume(local, resp)
      [] handler = "get_rfc_text" -> get_rfc_text_resume(local, resp)

-----------------------------------------------------------------------------------------------------------------------------------------------------
(* The server: the requests it has taken (inv), the HTTP clients its       *)
(* handlers have opened (clients), the outbound requests issued (net) and  *)
(* the last answer to a list-tools request (listed).  twin is a second run *)
(* of the same server, in a process of its own.                            *)

\* no response yet
NoResp == [kind |-> "none", status |-> 0, msg |-> <<>>, text |-> <<>>, json |-> Absent]
\* nothing listed yet
NotListed == <<>>

\* the requests of a step, logged with the invocation that issued them
RECURSIVE Sent(_, _)
Sent(i, reqs) ==
    IF reqs = <<>> THEN <<>>
    ELSE <<[by |-> i, req |-> Head(reqs)]>> \o Sent(i, Tail(reqs))

\* a server process right after app = Server("rfc-tools")
Started == [inv |-> <<>>, clients |-> <<>>, net |-> <<>>, listed |-> NotListed]

\* the server process the variables describe
Server == [inv |-> inv, clients |-> clients, net |-> net, listed |-> listed]

Becomes(sv) ==
    /\ inv' = sv.inv
    /\ clients' = sv.clients
    /\ net' = sv.net
    /\ listed' = sv.listed

Init ==
    /\ inv = Started.inv
    /\ clients = Started.clients
    /\ net = Started.net
    /\ listed = Started.listed
    /\ twin = Started

\* a list-tools request, answered after Len(inv) call-tool requests
AfterListTools(sv) ==
    [sv EXCEPT !.listed = <<[after |-> Len(sv.inv), tools |-> list_tools]>>]

\* a call-tool request: call_tool runs until it raises or its handler
\* suspends at the await of the outbound GET
AfterCallTool(sv, name, arguments) ==
    LET i == Len(sv.inv) + 1
        cid == Len(sv.clients) + 1
        started == call_tool(name, arguments, cid)
        step == started.step
    IN  [sv EXCEPT
            !.inv = Append(sv.inv,
                      [name |-> name, args |-> arguments, handler |-> started.handler,
                       pc |-> step.status, local |-> step.local,
                       client |-> IF step.sent # <<>> THEN step.sent[1].client ELSE 0,
                       resp |-> NoResp, result |-> step.hret, err |-> step.err]),
            !.clients = IF step.opens
                        THEN Append(sv.clients, [owner |-> i, open |-> TRUE])
                        ELSE sv.clients,
            !.net = sv.net \o Sent(i, step.sent)]

\* invocation i is suspended at the await of its GET
Awaiting(sv, i) == i \in DOMAIN sv.inv /\ sv.inv[i].pc = "awaiting"

\* the same with a cache of results keyed by the handler and what it fetches
AfterResponse_cached(sv, i, resp) ==
    LET c == sv.inv[i]
        hits == {k \in DOMAIN sv.inv : /\ sv.inv[k].pc = "returned"
                                       /\ sv.inv[k].handler = c.handler
                                       /\ sv.inv[k].local = c.local}
        step == call_tool_resume(c.handler, c.local, resp)
    IN  [sv EXCEPT
            !.inv[i] = [c EXCEPT !.pc = step.status, !.resp = resp,
                                 !.result = IF hits = {} THEN step.hret
                                            ELSE sv.inv[CHOOSE k \in hits : TRUE].result,
                                 !.err = step.err],
            !.clients = IF step.closes
                        THEN [sv.clients EXCEPT ![c.client].open = FALSE]
                        ELSE sv.clients,
            !.net = sv.net \o Sent(i, step.sent)]

\* the outbound GET of invocation i completes with resp (a response, an error
\* or a timeout) and the handler runs on to its return
AfterResponse(sv, i, resp) ==
    LET c == sv.inv[i]
        step == call_tool_resume(c.handler, c.local, resp)
    IN  [sv EXCEPT
            !.inv[i] = [c EXCEPT !.pc = step.status, !.resp = resp,
                                 !.result = step.hret, !.err = step.err],
            !.clients = IF step.closes
                        THEN [sv.clients EXCEPT ![c.client].open = FALSE]
                        ELSE sv.clients,
            !.net = sv.net \o Sent(i, step.sent)]

ListTools ==
    /\ Becomes(AfterListTools(Server))
    /\ UNCHANGED twin

CallTool(name, arguments) ==
    /\ Becomes(AfterCallTool(Server, name, arguments))
    /\ UNCHANGED twin

Respond(i, resp) ==
    /\ Awaiting(Server, i)
    /\ Becomes(AfterResponse(Server, i, resp))
    /\ UNCHANGED twin

\* the same requests, taken by the second run
TwinCallTool(name, arguments) ==
    /\ twin' = AfterCallTool(twin, name, arguments)
    /\ UNCHANGED <<inv, clients, net, listed>>

TwinRespond(i, resp) ==
    /\ Awaiting(twin, i)
    /\ twin' = AfterResponse(twin, i, resp)
    /\ UNCHANGED <<inv, clients, net, listed>>

-----
(* The inputs: the call-tool requests of the client and the outcomes of    *)
(* the outbound GET.                                                       *)

DELETE_EVERYTHING ==
    <<"d","e","l","e","t","e","_","e","v","e","r","y","t","h","i","n","g">>
GET_RFC_UPPER ==
    <<"G","E","T","_","R","F","C">>
HTTP ==
    <<"H","T","T","P">>
ID_7540 ==
    <<"7","5","4","0">>
ID_99999999 ==
    <<"9","9","9","9","9","9","9","9">>
ID_4271 ==
    <<"4","2","7","1">>
ID_RFC4271 ==
    <<"R","F","C","4","2","7","1">>
ID_rfc4271 ==
    <<"r","f","c","4","2","7","1">>
ID_Rfc4271 ==
    <<"R","f","c","4","2","7","1">>
MSG_TIMEOUT ==
    <<"t","i","m","e","d"," ","o","u","t">>
MSG_STATUS ==
    <<"b","a","d"," ","s","t","a","t","u","s">>
MSG_DECODE ==
    <<"E","x","p","e","c","t","i","n","g"," ","v","a","l","u","e">>
DOC_NAME ==
    <<"r","f","c","7","5","4","0">>
DOC_TITLE ==
    <<"H","y","p","e","r","t","e","x","t"," ","T","r","a","n","s","f","e","r",
      " ","P","r","o","t","o","c","o","l"," ","V","e","r","s","i","o","n"," ",
      "2">>
PERSON_A ==
    <<"/","a","p","i","/","v","1","/","p","e","r","s","o","n","/","p","e","r",
      "s","o","n","/","1","/">>
PERSON_B ==
    <<"/","a","p","i","/","v","1","/","p","e","r","s","o","n","/","p","e","r",
      "s","o","n","/","2","/">>
LEVEL_PROPOSED ==
    <<"p","s">>
LEVEL_INTENDED ==
    <<"i","n","f">>
STREAM_IETF ==
    <<"i","e","t","f">>
GROUP_HTTPBIS ==
    <<"h","t","t","p","b","i","s">>
REV_00 ==
    <<"0","0">>

Args(query, limit, rfc_identifier, rfc_number) ==
    [query |-> query, limit |-> limit, rfc_identifier |-> rfc_identifier,
     rfc_number |-> rfc_number]
NoArgs == Args(Absent, Absent, Absent, Absent)
Call(name, arguments) == [name |-> name, arguments |-> arguments]

\* client.get raised: a connection error or the timeout
ErrorResp(msg) ==
    [kind |-> "error", status |-> 0, msg |-> msg, text |-> <<>>, json |-> Absent]
\* client.get returned a response; msg is the str() of the exception that
\* raise_for_status() or json() raises on it, if one does
HttpResp(status, msg, text, json) ==
    [kind |-> "http", status |-> status, msg |-> msg, text |-> text, json |-> json]
BadJson == Value("bad", <<>>, 0, <<>>, NoDict)

Doc(name, title, rev, abstract) ==
    [name |-> name, title |-> title, rev |-> rev, abstract |-> abstract]
SearchData(docs) == PyDict([objects |-> PyList(docs)])
Author(person) == [person |-> person]
Detail(name, title, abstract, authors, std_level, intended_std_level) ==
    PyDict([name |-> name, title |-> title, abstract |-> abstract,
            rev |-> PyStr(REV_00), pages |-> PyInt(96), authors |-> authors,
            stream |-> PyStr(STREAM_IETF), group |-> PyStr(GROUP_HTTPBIS),
            std_level |-> std_level, intended_std_level |-> intended_std_level,
            rfc |-> PyInt(7540)])

FillChars == <<"a", "B", ".", " ">>
\* a text of n characters; the fill k varies its content
Filler(n, k) == [i \in 1..n |-> FillChars[((i * k) % Len(FillChars)) + 1]]

SearchArgs(query, limit) == Args(query, limit, Absent, Absent)
IdArgs(rfc_identifier) == Args(Absent, Absent, rfc_identifier, Absent)
NumArgs(rfc_number) == Args(Absent, Absent, Absent, rfc_number)

HttpDoc == Doc(PyStr(DOC_NAME), PyStr(DOC_TITLE), PyStr(REV_00), PyStr(HTTP))
HttpDetail ==
    Detail(PyStr(DOC_NAME), PyStr(DOC_TITLE), PyStr(HTTP),
           PyList(<<Author(PyStr(PERSON_A)), Author(PyStr(PERSON_B))>>),
           PyStr(LEVEL_PROPOSED), PyNone)

\* the requests of a run of the server
Requests ==
    { Call(SEARCH_RFCS, SearchArgs(PyStr(HTTP), Absent)),
      Call(GET_RFC, IdArgs(PyStr(ID_7540))),
      Call(GET_RFC, IdArgs(PyInt(7540))),
      Call(GET_RFC_TEXT, NumArgs(PyInt(4271))),
      Call(DELETE_EVERYTHING, NoArgs) }

\* the outcomes of the outbound GET of a handler in a run of the server
Replies(handler) ==
    CASE handler = "search_rfcs" ->
           { ErrorResp(MSG_TIMEOUT),
             HttpResp(500, MSG_STATUS, <<>>, Absent),
             HttpResp(200, <<>>, <<>>, SearchData(<<HttpDoc>>)) }
      [] handler = "get_rfc" ->
           { ErrorResp(MSG_TIMEOUT),
             HttpResp(404, MSG_STATUS, <<>>, Absent),
             HttpResp(500, MSG_STATUS, <<>>, Absent),
             HttpResp(200, <<>>, <<>>, HttpDetail) }
      [] handler = "get_rfc_text" ->
           { ErrorResp(MSG_TIMEOUT),
             HttpResp(404, MSG_STATUS, <<>>, Absent),
             HttpResp(500, MSG_STATUS, <<>>, Absent),
             HttpResp(200, <<>>, Filler(MaxShort, 1), Absent) }
      [] OTHER -> {}

Next ==
    \/ ListTools
    \/ \E r \in Requests : Len(inv) < MaxCalls /\ CallTool(r.name, r.arguments)
    \/ \E i \in DOMAIN inv : \E resp \in Replies(inv[i].handler) : Respond(i, resp)

Spec == Init /\ [][Next]_vars

-----------------------------------------------------------------------------
(* One call of any tool against every kind of outcome of its GET. *)

FetchRequests ==
    Requests \cup
    { Call(SEARCH_RFCS, SearchArgs(PyStr(HTTP), PyInt(2))),
      Call(SEARCH_RFCS, NoArgs),
      Call(GET_RFC, IdArgs(PyStr(ID_99999999))),
      Call(GET_RFC, IdArgs(PyStr(ID_RFC4271))),
      Call(GET_RFC, NoArgs),
      Call(GET_RFC_TEXT, NoArgs),
      Call(GET_RFC_UPPER, IdArgs(PyStr(ID_7540))) }

\* the failures every handler can meet: transport errors and error statuses
Failures ==
    { ErrorResp(MSG_TIMEOUT), ErrorResp(<<>>),
      HttpResp(404, MSG_STATUS, <<>>, BadJson),
      HttpResp(500, MSG_STATUS, <<>>, BadJson),
      HttpResp(301, MSG_STATUS, <<>>, BadJson),
      HttpResp(199, MSG_STATUS, <<>>, BadJson) }

FetchReplies(handler) ==
    CASE handler = "search_rfcs" ->
           Failures \cup
           { HttpResp(200, MSG_DECODE, <<>>, BadJson),
             HttpResp(200, <<>>, <<>>, PyList(<<>>)),
             HttpResp(200, <<>>, <<>>, PyDict([objects |-> Absent])),
             HttpResp(200, <<>>, <<>>, SearchData(<<>>)),
             HttpResp(200, <<>>, <<>>, SearchData(<<HttpDoc>>)),
             HttpResp(200, <<>>, <<>>,
                      SearchData(<<HttpDoc, Doc(Absent, Absent, Absent, PyNone)>>)),
             HttpResp(200, <<>>, <<>>,
                      SearchData(<<HttpDoc, Doc(PyStr(DOC_NAME), PyNone, Absent, PyInt(7))>>)) }
      [] handler = "get_rfc" ->
           Failures \cup
           { HttpResp(200, MSG_DECODE, <<>>, BadJson),
             HttpResp(200, <<>>, <<>>, PyList(<<>>)),
             HttpResp(204, <<>>, <<>>, HttpDetail),
             HttpResp(200, <<>>, <<>>, HttpDetail),
             HttpResp(200, <<>>, <<>>,
                      Detail(PyStr(DOC_NAME), PyStr(DOC_TITLE), PyStr(<<>>),
                             PyList(<<>>), PyNone, PyStr(LEVEL_INTENDED))),
             HttpResp(200, <<>>, <<>>,
                      Detail(Absent, Absent, Absent, Absent, Absent, Absent)),
             HttpResp(200, <<>>, <<>>,
                      Detail(PyInt(7540), PyStr(DOC_TITLE), PyStr(HTTP),
                             PyList(<<>>), PyNone, PyNone)) }
      [] handler = "get_rfc_text" ->
           Failures \cup
           { HttpResp(200, <<>>, <<>>, BadJson),
             HttpResp(204, <<>>, <<>>, BadJson),
             HttpResp(200, <<>>, Filler(MaxShort, 1), BadJson) }
      [] OTHER -> {}

NextFetch ==
    \/ \E r \in FetchRequests : inv = <<>> /\ CallTool(r.name, r.arguments)
    \/ \E i \in DOMAIN inv : \E resp \in FetchReplies(inv[i].handler) : Respond(i, resp)

SpecFetch == Init /\ [][NextFetch]_vars

-----------------------------------------------------------------------------
(* One call of a known tool with each argument missing, of its declared
   type, or of another type. *)

\* the values an argument of a request takes: missing, strings, an integer
\* and None
ArgValues == {Absent, PyStr(ID_7540), PyStr(<<>>), PyInt(7540), PyNone}

ArgRequests ==
    { Call(SEARCH_RFCS, SearchArgs(q, l)) : q \in ArgValues, l \in ArgValues }
    \cup { Call(GET_RFC, IdArgs(v)) : v \in ArgValues }
    \cup { Call(GET_RFC_TEXT, NumArgs(v)) : v \in ArgValues }

NextArgs ==
    \/ \E r \in ArgRequests : inv = <<>> /\ CallTool(r.name, r.arguments)
    \/ \E i \in DOMAIN inv : \E resp \in Replies(inv[i].handler) : Respond(i, resp)

SpecArgs == Init /\ [][NextArgs]_vars

-----------------------------------------------------------------------------
(* One search_rfcs call against documents with abstracts around the cap. *)

AbstractLens ==
    (0..MaxShort) \cup ((ABSTRACT_CAP - MaxOver)..(ABSTRACT_CAP + MaxOver))
Abstracts ==
    { PyStr(Filler(n, k)) : n \in AbstractLens, k \in 1..MaxFill }
        \cup { Absent, PyNone }

\* n documents, all HttpDoc but the last
DocList(n, last) == [k \in 1..n |-> IF k = n THEN last ELSE HttpDoc]

SearchRequests ==
    { Call(SEARCH_RFCS, SearchArgs(PyStr(HTTP), PyInt(2))),
      Call(SEARCH_RFCS, SearchArgs(PyStr(HTTP), Absent)) }
SearchReplies ==
    { HttpResp(200, <<>>, <<>>,
               SearchData(DocList(n, Doc(PyStr(DOC_NAME), PyStr(DOC_TITLE),
                                         PyStr(REV_00), a)))) :
        n \in 1..MaxDocs, a \in Abstracts }
        \cup { HttpResp(200, <<>>, <<>>, SearchData(<<>>)) }

NextSearch ==
    \/ \E r \in SearchRequests : inv = <<>> /\ CallTool(r.name, r.arguments)
    \/ \E i \in DOMAIN inv : \E resp \in SearchReplies : Respond(i, resp)

SpecSearch == Init /\ [][NextSearch]_vars

-----------------------------------------------------------------------------
(* One get_rfc_text call against bodies around the cap. *)

TextLens ==
    (0..MaxShort) \cup ((TEXT_CAP - MaxOver)..(TEXT_CAP + MaxOver)) \cup {60001}

TextRequests ==
    { Call(GET_RFC_TEXT, NumArgs(PyInt(4271))),
      Call(GET_RFC_TEXT, NumArgs(PyInt(7540))),
      Call(GET_RFC_TEXT, NoArgs) }
TextReplies ==
    { HttpResp(200, <<>>, Filler(n, k), BadJson) : n \in TextLens, k \in 1..MaxFill }
        \cup { HttpResp(404, MSG_STATUS, <<>>, BadJson) }

NextText ==
    \/ \E r \in TextRequests : inv = <<>> /\ CallTool(r.name, r.arguments)
    \/ \E i \in DOMAIN inv : \E resp \in TextReplies : Respond(i, resp)

SpecText == Init /\ [][NextText]_vars

-----------------------------------------------------------------------------
(* One get_rfc call for every identifier over a small alphabet. *)

IdAlphabet == <<"r", "R", "f", "F", "c", "C", "4", "x">>

\* the strings over IdAlphabet of length at most n
RECURSIVE IdStrings(_)
IdStrings(n) ==
    IF n = 0 THEN {<<>>}
    ELSE LET shorter == IdStrings(n - 1)
         IN  shorter \cup { Append(s, IdAlphabet[k]) : s \in shorter, k \in 1..Len(IdAlphabet) }

IdExamples ==
    { ID_4271, ID_RFC4271, ID_rfc4271, ID_Rfc4271, ID_7540, ID_99999999 }

NormRequests ==
    { Call(GET_RFC, IdArgs(PyStr(s))) : s \in IdStrings(MaxIdLen) \cup IdExamples }
NormReplies ==
    { HttpResp(404, MSG_STATUS, <<>>, BadJson), HttpResp(200, <<>>, <<>>, HttpDetail) }

NextNorm ==
    \/ \E r \in NormRequests : inv = <<>> /\ CallTool(r.name, r.arguments)
    \/ \E i \in DOMAIN inv : \E resp \in NormReplies : Respond(i, resp)

SpecNorm == Init /\ [][NextNorm]_vars

-----------------------------------------------------------------------------
(* Two runs of the server: one with any history of requests, and a second  *)
(* one whose first request is compared with the requests of the first.     *)

PairRequests ==
    { Call(GET_RFC, IdArgs(PyStr(ID_7540))),
      Call(GET_RFC_TEXT, NumArgs(PyInt(4271))),
      Call(DELETE_EVERYTHING, NoArgs) }
PairReplies(handler) ==
    CASE handler = "get_rfc" ->
           { HttpResp(404, MSG_STATUS, <<>>, Absent),
             HttpResp(200, <<>>, <<>>, HttpDetail) }
      [] handler = "get_rfc_text" ->
           { HttpResp(404, MSG_STATUS, <<>>, Absent),
             HttpResp(200, <<>>, Filler(MaxShort, 1), Absent) }
      [] OTHER -> {}

NextPair ==
    \/ ListTools
    \/ \E r \in PairRequests : Len(inv) < MaxCalls /\ CallTool(r.name, r.arguments)
    \/ \E i \in DOMAIN inv : \E resp \in PairReplies(inv[i].handler) : Respond(i, resp)
    \/ \E r \in PairRequests : twin.inv = <<>> /\ TwinCallTool(r.name, r.arguments)
    \/ \E i \in DOMAIN twin.inv :
           \E resp \in PairReplies(twin.inv[i].handler) : TwinRespond(i, resp)

SpecPair == Init /\ [][NextPair]_vars

-----------------------------------------------------------------------------
(* Claims. *)

KnownTools == {SEARCH_RFCS, GET_RFC, GET_RFC_TEXT}

\* the outbound requests invocation i has issued
RequestsBy(i) == {k \in DOMAIN net : net[k].by = i}

\* what the handler named name returns for the response of invocation c
HandlerResult(name, c) ==
    IF name = SEARCH_RFCS THEN search_rfcs_resume(c.local, c.resp).hret
    ELSE IF name = GET_RFC THEN get_rfc_resume(c.local, c.resp).hret
    ELSE get_rfc_text_resume(c.local, c.resp).hret

HandlerNamed(name) ==
    IF name = SEARCH_RFCS THEN "search_rfcs"
    ELSE IF name = GET_RFC THEN "get_rfc"
    ELSE IF name = GET_RFC_TEXT THEN "get_rfc_text"
    ELSE "none"

\* C1: call_tool invokes a handler iff the name is one of the three tool
\* names, then exactly the handler of that name, and returns that handler's
\* result verbatim; for every other name it raises the unknown-tool error,
\* returns no text result, invokes no handler and issues no outbound request.
C1_Dispatch ==
    \A i \in DOMAIN inv :
        LET c == inv[i]
        IN  /\ (c.handler # "none") <=> (c.name \in KnownTools)
            /\ c.handler = HandlerNamed(c.name)
            /\ (c.name \in KnownTools /\ c.pc = "returned")
                   => c.result = HandlerResult(c.name, c)
            /\ c.name \notin KnownTools
                   => /\ c.pc = "raised"
                      /\ c.err = [exc |-> "ValueError", msg |-> UNKNOWN_TOOL_PREFIX \o c.name]
                      /\ c.result = <<>>
                      /\ c.client = 0
                      /\ RequestsBy(i) = {}

\* C1 witness: an unknown name has raised and a known name has returned the
\* result of its handler
C1_Witness ==
    /\ \E i \in DOMAIN inv : inv[i].name = DELETE_EVERYTHING /\ inv[i].pc = "raised"
    /\ \E i \in DOMAIN inv :
           /\ inv[i].name = GET_RFC_TEXT
           /\ inv[i].pc = "returned"
           /\ inv[i].result # <<>>

\* the outbound call of invocation c failed: a network error or timeout, a
\* status outside 2xx, or a response the handler cannot parse
NetworkFailed(c) == c.resp.kind = "error"
StatusFailed(c) == c.resp.kind = "http" /\ ~(c.resp.status \in 200..299)
ParseFailed(c) ==
    /\ c.resp.kind = "http"
    /\ c.resp.status \in 200..299
    /\ \/ c.handler \in {"search_rfcs", "get_rfc"} /\ c.resp.json.t # "dict"
       \/ /\ c.handler = "search_rfcs"
          /\ c.resp.json.t = "dict"
          /\ c.resp.json.d.objects.t = "list"
          /\ \E k \in DOMAIN c.resp.json.d.objects.l :
                 c.resp.json.d.objects.l[k].abstract.t = "int"
       \/ /\ c.handler = "get_rfc"
          /\ c.resp.json.t = "dict"
          /\ c.resp.json.d.name.t = "int"
CallFailed(c) == NetworkFailed(c) \/ StatusFailed(c) \/ ParseFailed(c)

OneTextBlock(result) == Len(result) = 1 /\ result[1].type = "text"

\* C2: in each of the three handlers every failure of the outbound call
\* (network error or timeout, status outside 2xx, parsing failure) is caught
\* in the handler: the call returns one text block and raises nothing.
C2_FailuresBecomeText ==
    \A i \in DOMAIN inv :
        CallFailed(inv[i])
            => /\ inv[i].pc = "returned"
               /\ inv[i].err = NoError
               /\ OneTextBlock(inv[i].result)

\* C2 witness: a search whose response could not be parsed has returned text
C2_Witness ==
    \E i \in DOMAIN inv :
        /\ inv[i].handler = "search_rfcs"
        /\ ParseFailed(inv[i])
        /\ inv[i].pc = "returned"
        /\ StartsWith(inv[i].result[1].text, SEARCH_ERROR_PREFIX)

\* the abstract a search result is to carry for a source abstract
CappedAbstract(abstract) ==
    IF abstract.t # "str" THEN <<>>
    ELSE IF Len(abstract.s) > ABSTRACT_CAP
         THEN SubSeq(abstract.s, 1, ABSTRACT_CAP) \o ELLIPSIS
         ELSE abstract.s

\* the results of a search whose abstracts are capped that way
CappedResults(docs) ==
    [k \in DOMAIN docs |->
        [name |-> Get(docs[k], "name", PyStr(<<>>)),
         title |-> Get(docs[k], "title", PyStr(<<>>)),
         rev |-> Get(docs[k], "rev", PyStr(<<>>)),
         abstract |-> PyStr(CappedAbstract(docs[k].abstract))]]

\* a search whose response was a document list has returned
SearchReturned(c) ==
    /\ c.handler = "search_rfcs"
    /\ c.pc = "returned"
    /\ c.resp.kind = "http"
    /\ c.resp.status \in 200..299
    /\ c.resp.json.t = "dict"
    /\ c.resp.json.d.objects.t = "list"
    /\ \A k \in DOMAIN c.resp.json.d.objects.l :
           c.resp.json.d.objects.l[k].abstract.t \in {"str", "none", "absent"}

\* C3: in search_rfcs the abstract of every returned document is the first
\* 200 characters of the source abstract followed by "..." when the source
\* abstract is longer than 200 characters, and the source abstract unchanged,
\* with no ellipsis, when it has at most 200 characters (the empty included).
C3_AbstractCapped ==
    \A i \in DOMAIN inv :
        SearchReturned(inv[i])
            => inv[i].result =
                   <<TextContent(SearchText(inv[i].local,
                        CappedResults(inv[i].resp.json.d.objects.l)))>>

\* a get_rfc_text call whose fetch succeeded has returned
TextFetched(c) ==
    /\ c.handler = "get_rfc_text"
    /\ c.pc = "returned"
    /\ c.resp.kind = "http"
    /\ c.resp.status \in 200..299

\* the header line of get_rfc_text for the arguments of a call
TextHeader(args) ==
    TEXT_HEADER_PREFIX
        \o Format(IF args.rfc_number.t = "absent" THEN PyInt(0) ELSE args.rfc_number)
        \o TEXT_HEADER_SUFFIX

\* C4: on a successful fetch the result of get_rfc_text is the header line
\* naming the RFC number followed by the fetched body unchanged when the body
\* has at most 50,000 characters, and by exactly its first 50,000 characters
\* and the truncation marker when it has more.
C4_TextCapped ==
    \A i \in DOMAIN inv :
        TextFetched(inv[i])
            => LET body == inv[i].resp.text
                   header == TextHeader(inv[i].args)
                   text == inv[i].result[1].text
               IN  /\ OneTextBlock(inv[i].result)
                   /\ StartsWith(text, header)
                   /\ SubSeq(text, Len(header) + 1, Len(text)) =
                          IF Len(body) <= TEXT_CAP THEN body
                          ELSE SubSeq(body, 1, TEXT_CAP) \o TRUNCATION_MARKER

\* C4 witness: a body of 50,001 characters has been fetched and returned
C4_Witness ==
    \E i \in DOMAIN inv :
        /\ TextFetched(inv[i])
        /\ Len(inv[i].resp.text) = TEXT_CAP + 1
        /\ Len(inv[i].result[1].text) =
               Len(TextHeader(inv[i].args)) + TEXT_CAP + Len(TRUNCATION_MARKER)

\* the raw identifier of a get_rfc call
RawId(c) == IF c.args.rfc_identifier.t = "absent" THEN <<>> ELSE c.args.rfc_identifier.s

\* C5: the identifier normalization of get_rfc is idempotent, normalizing the
\* identifier the handler has normalized changes nothing, for every input
\* string, the empty one included; and "4271", "RFC4271" and "rfc4271" all
\* become "rfc4271".
C5_NormalizeIdempotent ==
    \A i \in DOMAIN inv :
        (inv[i].handler = "get_rfc" /\ inv[i].pc # "raised")
            => /\ Normalize(inv[i].local.s) = inv[i].local.s
               /\ RawId(inv[i]) \in {ID_4271, ID_RFC4271, ID_rfc4271}
                      => inv[i].local.s = ID_rfc4271

\* C5 witness: get_rfc has normalized "Rfc4271" to "rfc4271"
C5_Witness ==
    \E i \in DOMAIN inv :
        /\ inv[i].handler = "get_rfc"
        /\ RawId(inv[i]) = ID_Rfc4271
        /\ inv[i].local.s = ID_rfc4271
        /\ inv[i].pc = "returned"

EndsWith(s, p) == Len(s) >= Len(p) /\ SubSeq(s, Len(s) - Len(p) + 1, Len(s)) = p

\* the outbound GET of a get_rfc call has completed
DetailFetched(c) == c.handler = "get_rfc" /\ c.resp.kind # "none"

\* the four outcomes of the outbound call of get_rfc
DetailNotFound(c) == c.resp.kind = "http" /\ c.resp.status = 404
DetailOtherStatus(c) == StatusFailed(c) /\ c.resp.status # 404
DetailOtherFailure(c) == NetworkFailed(c) \/ ParseFailed(c)
DetailSucceeded(c) ==
    c.resp.kind = "http" /\ c.resp.status \in 200..299 /\ ~ParseFailed(c)

\* C6: the result text of get_rfc is decided by the outcome of its one
\* outbound call, and the outcomes give texts of four distinct shapes: a 404
\* gives exactly "RFC '<normalized id>' not found. Please check the RFC
\* number."; any other error status a text starting "HTTP error fetching
\* RFC: "; any other failure a text starting "Error fetching RFC: "; and
\* only a successful response gives the formatted document.
C6_DetailOutcomes ==
    \A i \in DOMAIN inv :
        DetailFetched(inv[i])
            => LET c == inv[i]
                   text == c.result[1].text
               IN  /\ c.pc = "returned"
                   /\ OneTextBlock(c.result)
                   /\ DetailNotFound(c)
                          <=> (StartsWith(text, NOT_FOUND_PREFIX)
                                  /\ EndsWith(text, NOT_FOUND_SUFFIX))
                   /\ DetailNotFound(c)
                          => text = NOT_FOUND_PREFIX \o Normalize(RawId(c))
                                        \o NOT_FOUND_SUFFIX
                   /\ (DetailNotFound(c) /\ RawId(c) = ID_99999999)
                          => text = NOT_FOUND_PREFIX \o RFC_PREFIX \o ID_99999999
                                        \o NOT_FOUND_SUFFIX
                   /\ (DetailNotFound(c) /\ RawId(c) = ID_RFC4271)
                          => text = NOT_FOUND_PREFIX \o ID_rfc4271 \o NOT_FOUND_SUFFIX
                   /\ DetailOtherStatus(c) <=> StartsWith(text, HTTP_ERROR_PREFIX)
                   /\ DetailOtherStatus(c) => text = HTTP_ERROR_PREFIX \o c.resp.msg
                   /\ DetailOtherFailure(c) <=> StartsWith(text, FETCH_ERROR_PREFIX)
                   /\ DetailSucceeded(c) <=> StartsWith(text, DOC_TITLE_PREFIX)
                   /\ DetailSucceeded(c) => text = DetailText(c.resp.json.d)

\* C6 witness: get_rfc("RFC4271") met a 404 and named rfc4271 in its text
C6_Witness ==
    \E i \in DOMAIN inv :
        /\ DetailFetched(inv[i])
        /\ DetailNotFound(inv[i])
        /\ RawId(inv[i]) = ID_RFC4271
        /\ inv[i].result =
               <<TextContent(NOT_FOUND_PREFIX \o ID_rfc4271 \o NOT_FOUND_SUFFIX)>>

\* a call-tool request has been answered: call_tool returned or raised
Finished(c) == c.pc \in {"returned", "raised"}

SameRequest(c, d) == c.name = d.name /\ c.args = d.args /\ c.resp = d.resp
SameAnswer(c, d) == c.pc = d.pc /\ c.result = d.result /\ c.err = d.err

\* C7: the answer to a call-tool request depends only on its name, its
\* arguments and the remote response to its own outbound request: a request
\* answered after any history of list-tools and call-tool requests gets the
\* answer the same request with the same response gets as the first request
\* of another run, and as any other request of its own run.
C7_Stateless ==
    /\ \A i \in DOMAIN inv : \A j \in DOMAIN twin.inv :
           (Finished(inv[i]) /\ Finished(twin.inv[j]) /\ SameRequest(inv[i], twin.inv[j]))
               => SameAnswer(inv[i], twin.inv[j])
    /\ \A i \in DOMAIN inv : \A j \in DOMAIN inv :
           (Finished(inv[i]) /\ Finished(inv[j]) /\ SameRequest(inv[i], inv[j]))
               => SameAnswer(inv[i], inv[j])

\* C7 witness: a request answered second in one run, after a list-tools
\* request and a call that fetched the same thing with another response, and
\* the same request with the same response answered first in the other run
C7_Witness ==
    /\ Len(inv) >= 2
    /\ Len(twin.inv) = 1
    /\ inv[1].pc = "returned"
    /\ inv[2].pc = "returned"
    /\ inv[1].name = inv[2].name
    /\ inv[1].args = inv[2].args
    /\ inv[1].resp # inv[2].resp
    /\ twin.inv[1].pc = "returned"
    /\ SameRequest(inv[2], twin.inv[1])
    /\ listed # NotListed
    /\ listed[1].after = 1

\* C8: whenever it is asked, after any sequence of list-tools and call-tool
\* requests, list_tools answers with the same three tools in the same order:
\* search_rfcs (required query, optional limit with default 10), get_rfc
\* (required rfc_identifier), get_rfc_text (required rfc_number).
C8_SameTools ==
    listed # NotListed
        => LET tools == listed[1].tools
           IN  /\ Len(tools) = 3
               /\ tools[1].name = "search_rfcs"
               /\ tools[1].required = <<"query">>
               /\ tools[1].properties =
                      << [name |-> "query", type |-> "string", default |-> Absent],
                         [name |-> "limit", type |-> "integer", default |-> PyInt(10)] >>
               /\ tools[2].name = "get_rfc"
               /\ tools[2].required = <<"rfc_identifier">>
               /\ tools[2].properties =
                      << [name |-> "rfc_identifier", type |-> "string", default |-> Absent] >>
               /\ tools[3].name = "get_rfc_text"
               /\ tools[3].required = <<"rfc_number">>
               /\ tools[3].properties =
                      << [name |-> "rfc_number", type |-> "integer", default |-> Absent] >>

\* C8 witness: the tools were listed after an unknown-tool call had raised
\* and a handler had returned an error text
C8_Witness ==
    /\ listed # NotListed
    /\ listed[1].after = Len(inv)
    /\ \E i \in DOMAIN inv : inv[i].name = DELETE_EVERYTHING /\ inv[i].pc = "raised"
    /\ \E i \in DOMAIN inv : inv[i].pc = "returned" /\ CallFailed(inv[i])

\* C9: no handler retries: an invocation issues at most one outbound GET,
\* and an invocation whose GET has failed has returned its text with that
\* one request issued.
C9_NoRetry ==
    \A i \in DOMAIN inv :
        /\ Cardinality(RequestsBy(i)) <= 1
        /\ \A k \in RequestsBy(i) : net[k].req.method = "GET"
        /\ inv[i].pc = "awaiting" => Cardinality(RequestsBy(i)) = 1
        /\ CallFailed(inv[i])
               => /\ inv[i].pc = "returned"
                  /\ OneTextBlock(inv[i].result)
                  /\ Cardinality(RequestsBy(i)) = 1

\* C9 witness: a get_rfc_text call whose GET timed out has returned
C9_Witness ==
    \E i \in DOMAIN inv :
        /\ inv[i].handler = "get_rfc_text"
        /\ NetworkFailed(inv[i])
        /\ inv[i].pc = "returned"
        /\ Cardinality(RequestsBy(i)) = 1

\* C10: every handler opens a client of its own in the call and the client
\* is closed on every way out: the client of an invocation that has returned
\* is closed, only the client of a suspended invocation is open, and every
\* outbound request went through the client its own invocation opened.
C10_ClientsReleased ==
    /\ \A i \in DOMAIN inv :
           inv[i].pc = "returned"
               => /\ inv[i].client \in DOMAIN clients
                  /\ clients[inv[i].client].owner = i
                  /\ ~clients[inv[i].client].open
    /\ \A k \in DOMAIN clients :
           clients[k].open => inv[clients[k].owner].pc = "awaiting"
    /\ \A k \in DOMAIN net :
           /\ net[k].req.client \in DOMAIN clients
           /\ clients[net[k].req.client].owner = net[k].by
    /\ \A i \in DOMAIN inv : \A j \in DOMAIN inv :
           (i # j /\ inv[i].client # 0) => inv[i].client # inv[j].client

\* C10 witness: two calls have returned, one with its document and one with
\* an error text, each through a client of its own, and no client is open
C10_Witness ==
    /\ Len(clients) >= 2
    /\ \A k \in DOMAIN clients : ~clients[k].open
    /\ \E i \in DOMAIN inv : inv[i].pc = "returned" /\ CallFailed(inv[i])
    /\ \E i \in DOMAIN inv : inv[i].pc = "returned" /\ ~CallFailed(inv[i])

\* C11: for a known tool name call_tool raises nothing and returns one text
\* block for every arguments mapping, also when the required key is missing
\* or its value has another type than declared: no call of a known tool ends
\* raised, and every such call that has ended has returned one text block.
C11_ArgumentsBecomeText ==
    \A i \in DOMAIN inv :
        (inv[i].name \in KnownTools /\ Finished(inv[i]))
            => /\ inv[i].pc = "returned"
               /\ inv[i].err = NoError
               /\ OneTextBlock(inv[i].result)

====
